---- MODULE Spec2Model ----
(***************************************************************************)
(* The transcript controller of the chat widget: the Index component of    *)
(* src/src/pages/Index.tsx.  Its state is the three React state cells      *)
(* (messages, inputValue, isLoading); its operations are the two event     *)
(* handlers (onChange of the input, handleSendMessage of the form) and the *)
(* continuations of handleSendMessage after each of its awaits (fetch,     *)
(* response.json(), response.text()).  An invocation is kept in reqs while *)
(* it is suspended; last records the invocation that returned last: what   *)
(* it sent and received, the replies it appended and the toasts it showed. *)
(* Spec lets every event reach its handler; SpecUI lets through only what  *)
(* the rendered controls (disabled while isLoading) allow.                 *)
(*                                                                         *)
(* Strings are TLA+ strings; the content of the input field is a sequence  *)
(* of one-character strings so that String.prototype.trim can be computed. *)
(* JavaScript values that are dynamically typed in the code (the parsed    *)
(* response, the extracted responseMessage, the text of a message) are     *)
(* tagged records.                                                         *)
(***************************************************************************)
EXTENDS Integers, Sequences, FiniteSets

(***************************************************************************)
(* Bounds of the model.                                                    *)
(***************************************************************************)
\* number of submit events dispatched on the form
MaxEvents == 2
\* the clock runs from ClockStart to ClockStart + ClockSpan milliseconds
ClockSpan == 1
\* Date.now() of the first render; any running program has a clock far past 1
ClockStart == 9


VARIABLES
  messages,    \* useState<Message[]>: the transcript
  inputValue,  \* useState(''): the content of the input field
  isLoading,   \* useState(false): the in-flight flag
  reqs,        \* the invocations of handleSendMessage suspended at an await,
               \* by the number of the submit event that started them
  last,        \* the invocation of handleSendMessage that returned last
  prevented,   \* the number of submit events handled (e.preventDefault())
  now          \* the clock read by Date.now() and new Date()

vars == <<messages, inputValue, isLoading, reqs, last, prevented, now>>

(***************************************************************************)
(* JavaScript values.                                                      *)
(***************************************************************************)
Str(s) == [t |-> "string", s |-> s]
Num(n) == [t |-> "number", n |-> n]
Bool(b) == [t |-> "boolean", b |-> b]
Null == [t |-> "null"]
Undefined == [t |-> "undefined"]
\* an object literal: its members <<key, value>> in insertion order
Obj(members) == [t |-> "object", members |-> members]

\* ToBoolean, as applied by if (...) and by ||
Truthy(v) ==
  CASE v.t = "string" -> v.s # ""
    [] v.t = "number" -> v.n # 0
    [] v.t = "boolean" -> v.b
    [] v.t = "object" -> TRUE
    [] OTHER -> FALSE

\* a || b
OrElse(a, b) == IF Truthy(a) THEN a ELSE b

\* data.key throws a TypeError when data is null or undefined
GetThrows(data) == data.t \in {"null", "undefined"}

\* data.key, for a key that is no built-in property of a primitive
Get(data, key) ==
  IF data.t = "object" /\ \E i \in 1..Len(data.members) : data.members[i][1] = key
  THEN data.members[CHOOSE i \in 1..Len(data.members) : data.members[i][1] = key][2]
  ELSE Undefined

Digits == <<"0", "1", "2", "3", "4", "5", "6", "7", "8", "9">>

\* Number.prototype.toString of a non-negative integer
RECURSIVE ToString(_)
ToString(n) ==
  IF n < 10 THEN Digits[n + 1] ELSE ToString(n \div 10) \o Digits[(n % 10) + 1]

\* JSON.stringify; the strings of the model hold no character that is escaped
RECURSIVE JSONStringify(_)
RECURSIVE StringifyMembers(_)
StringifyMembers(ms) ==
  IF ms = <<>> THEN ""
  ELSE "\"" \o ms[1][1] \o "\":" \o JSONStringify(ms[1][2])
       \o (IF Len(ms) > 1 THEN "," ELSE "") \o StringifyMembers(Tail(ms))
JSONStringify(v) ==
  CASE v.t = "string" -> "\"" \o v.s \o "\""
    [] v.t = "number" -> ToString(v.n)
    [] v.t = "boolean" -> (IF v.b THEN "true" ELSE "false")
    [] v.t = "null" -> "null"
    [] v.t = "object" -> "{" \o StringifyMembers(v.members) \o "}"

(***************************************************************************)
(* The input field.                                                        *)
(***************************************************************************)
IsSpace(c) == c = " "

\* String.prototype.trim: white space is stripped at both ends only
RECURSIVE TrimStart(_)
TrimStart(cs) ==
  IF cs # <<>> /\ IsSpace(Head(cs)) THEN TrimStart(Tail(cs)) ELSE cs
RECURSIVE TrimEnd(_)
TrimEnd(cs) ==
  IF cs # <<>> /\ IsSpace(cs[Len(cs)]) THEN TrimEnd(SubSeq(cs, 1, Len(cs) - 1)) ELSE cs
Trim(cs) == TrimEnd(TrimStart(cs))

\* the string made of the characters cs
RECURSIVE Join(_)
Join(cs) == IF cs = <<>> THEN "" ELSE Head(cs) \o Join(Tail(cs))

\* what is typed into the input field: nothing, white space only, and a text
\* with white space at both ends and inside
Inputs == {<<>>, <<" ", " ">>, <<" ", "a", " ", "b", " ">>}

(***************************************************************************)
(* Messages.                                                               *)
(***************************************************************************)
TypingId == "typing"

Message(id, text, type, timestamp) ==
  [id |-> id, text |-> text, type |-> type, timestamp |-> timestamp]

InitialMessage ==
  Message("1", Str("Hey there! What can I help you with today?"), "creator", ClockStart)

\* a filter on the type: prev.filter(msg => msg.type !== 'creator')
RECURSIVE WithoutCreators(_)
WithoutCreators(prev) ==
  IF prev = <<>> THEN <<>>
  ELSE (IF Head(prev).type # "creator" THEN <<Head(prev)>> ELSE <<>>)
       \o WithoutCreators(Tail(prev))

\* prev.filter(msg => msg.id !== 'typing')
RECURSIVE WithoutTyping(_)
WithoutTyping(prev) ==
  IF prev = <<>> THEN <<>>
  ELSE (IF Head(prev).id # TypingId THEN <<Head(prev)>> ELSE <<>>)
       \o WithoutTyping(Tail(prev))

MaxClock == ClockStart + ClockSpan

(***************************************************************************)
(* The webhook's answers.  fetch resolves with the status line; the body   *)
(* is delivered when it is read.  A body is its raw text and, when the     *)
(* text is JSON, the value JSON.parse gives.                               *)
(***************************************************************************)
Statuses == {200, 500}

\* Response.ok
ResponseOk(status) == status \in 200..299

JsonBody(data) == [raw |-> JSONStringify(data), parsed |-> <<data>>]
TextBody(raw) == [raw |-> raw, parsed |-> <<>>]

\* the JSON values the webhook answers with: each line of the extraction is
\* taken by one of them
JsonValues ==
  {Obj(<<<<"response", Str("R")>>, <<"message", Str("M")>>, <<"text", Str("T")>>>>),
   Obj(<<<<"message", Str("Hello")>>>>),
   Obj(<<<<"response", Str("")>>, <<"message", Str("M")>>, <<"text", Str("T")>>>>),
   Obj(<<<<"text", Str("T")>>, <<"message", Null>>, <<"response", Num(0)>>>>),
   Obj(<<<<"response", Num(5)>>>>),
   Obj(<<<<"text", Str("")>>, <<"ok", Bool(TRUE)>>>>),
   Str(""), Str("hi"), Num(0), Null}

Bodies ==
  {JsonBody(d) : d \in JsonValues} \cup {TextBody("plain text reply")}

(***************************************************************************)
(* The Response object: its body is a stream that is read once.            *)
(* json() and text() reject with a TypeError when the body was already     *)
(* read; otherwise they mark it read and give the parsed value (json()     *)
(* rejects with a SyntaxError when the text is no JSON) or the raw text.   *)
(***************************************************************************)
Rejected == [settled |-> "rejected"]
Fulfilled(v) == [settled |-> "fulfilled", value |-> v]

ResponseJson(bodyUsed, body) ==
  IF bodyUsed \/ body.parsed = <<>> THEN Rejected ELSE Fulfilled(body.parsed[1])

ResponseText(bodyUsed, body) ==
  IF bodyUsed THEN Rejected ELSE Fulfilled(Str(body.raw))

(***************************************************************************)
(* handleSendMessage.                                                      *)
(***************************************************************************)
\* the id of the user's message: Date.now().toString()
NewMessageId(t) == ToString(t)

\* the id of the reply: (Date.now() + 1).toString()
ReplyId(t) == ToString(t + 1)

NewMessage(messageText, t) == Message(NewMessageId(t), Str(messageText), "customer", t)

TypingMessage(t) == Message(TypingId, Str("AI is typing..."), "creator", t)

\* the body of the request with the key of an older revision: { messageText }
RequestBodyMessageText(messageText) ==
  JSONStringify(Obj(<<<<"messageText", Str(messageText)>>>>))

\* the body of the request
RequestBody(messageText) == JSONStringify(Obj(<<<<"message", Str(messageText)>>>>))

\* the guard without the trim: if (!inputValue) return
IgnoredUntrimmed(value) == ~Truthy(Str(Join(value)))

\* the guard of handleSendMessage: if (!inputValue.trim()) return
Ignored(value) == ~Truthy(Str(Join(Trim(value))))

\* the extraction with 'message' looked at before 'response'
ExtractMessageSwapped(responseData) ==
  IF Truthy(Get(responseData, "message")) THEN Get(responseData, "message")
  ELSE IF Truthy(Get(responseData, "response")) THEN Get(responseData, "response")
  ELSE IF Truthy(Get(responseData, "text")) THEN Get(responseData, "text")
  ELSE IF responseData.t = "string" THEN responseData
  ELSE Str(JSONStringify(responseData))

\* the extraction of the reply from the parsed response
ExtractMessage(responseData) ==
  IF Truthy(Get(responseData, "response")) THEN Get(responseData, "response")
  ELSE IF Truthy(Get(responseData, "message")) THEN Get(responseData, "message")
  ELSE IF Truthy(Get(responseData, "text")) THEN Get(responseData, "text")
  ELSE IF responseData.t = "string" THEN responseData
  ELSE Str(JSONStringify(responseData))

FallbackText == Str("No response received")

\* text: responseMessage, without the fallback
ReplyTextNoFallback(responseMessage) == responseMessage

\* text: responseMessage || 'No response received'
ReplyText(responseMessage) == OrElse(responseMessage, FallbackText)

\* the reply put in front: [reply, ...withoutTyping]
WithReplyInFront(prev, responseMessage, t) ==
  <<Message(ReplyId(t), ReplyText(responseMessage), "creator", t)>> \o WithoutTyping(prev)

\* the reply appended with the placeholder left in: [...prev, reply]
WithReplyKeepsTyping(prev, responseMessage, t) ==
  Append(prev, Message(ReplyId(t), ReplyText(responseMessage), "creator", t))

\* the transcript after a reply: the placeholder removed, the reply appended
WithReply(prev, responseMessage, t) ==
  Append(WithoutTyping(prev), Message(ReplyId(t), ReplyText(responseMessage), "creator", t))

\* an else branch that leaves the placeholder in the transcript
AfterHttpErrorKeepsTyping(prev) == prev

\* the transcript after a non-2xx status (the else branch)
AfterHttpError(prev) == WithoutTyping(prev)

\* a catch block that leaves the placeholder in the transcript
AfterExceptionKeepsTyping(prev) == prev

\* the transcript after an exception (the catch block)
AfterException(prev) == WithoutTyping(prev)

Toast(title, variant) == [title |-> title, variant |-> variant]
ResponseReceived == Toast("Response received", "default")
WebhookError == Toast("Webhook Error", "destructive")
ConnectionError == Toast("Connection Error", "destructive")

\* an invocation of handleSendMessage that is suspended at an await
Request(messageText) ==
  [text |-> messageText, payload |-> RequestBody(messageText), pc |-> "fetch",
   status |-> 0, bodyUsed |-> FALSE, body |-> <<>>, pending |-> <<>>]

\* an invocation that has returned: what it was given and what it did
Returned(n, req, outcome, replies, toasts) ==
  [event |-> n, text |-> req.text, status |-> req.status, body |-> req.body,
   outcome |-> outcome, replies |-> replies, toasts |-> toasts]

NoRequest == [text |-> "", status |-> 0, body |-> <<>>]

Suspend(n, req) == [j \in DOMAIN reqs \cup {n} |-> IF j = n THEN req ELSE reqs[j]]
Return(n) == [j \in DOMAIN reqs \ {n} |-> reqs[j]]

\* a finally block that leaves the in-flight flag as it is
FinallyKeepsLoading(n, req, outcome, replies, toasts) ==
  /\ isLoading' = isLoading
  /\ reqs' = Return(n)
  /\ last' = Returned(n, req, outcome, replies, toasts)

\* finally { setIsLoading(false) }, and the invocation returns
Finally(n, req, outcome, replies, toasts) ==
  /\ isLoading' = FALSE
  /\ reqs' = Return(n)
  /\ last' = Returned(n, req, outcome, replies, toasts)

\* the catch block of the outer try, then finally
Catch(n, req) ==
  /\ messages' = AfterException(messages)
  /\ Finally(n, req, "exception", <<>>, <<ConnectionError>>)

\* the else branch of if (response.ok), then finally
HttpError(n, req) ==
  /\ messages' = AfterHttpError(messages)
  /\ Finally(n, req, "httpError", <<>>, <<WebhookError>>)

\* setMessages(reply), toast, then finally
Reply(n, req, responseMessage) ==
  /\ messages' = WithReply(messages, responseMessage, now)
  /\ Finally(n, req, "replied", <<ReplyText(responseMessage)>>, <<ResponseReceived>>)

Init ==
  /\ messages = <<InitialMessage>>
  /\ inputValue = <<>>
  /\ isLoading = FALSE
  /\ reqs = <<>>
  /\ last = Returned(0, NoRequest, "none", <<>>, <<>>)
  /\ prevented = 0
  /\ now = ClockStart

\* time passes
Tick ==
  /\ now < MaxClock
  /\ now' = now + 1
  /\ UNCHANGED <<messages, inputValue, isLoading, reqs, last, prevented>>

\* onChange={(e) => setInputValue(e.target.value)}
OnChange(v) ==
  /\ v # inputValue
  /\ inputValue' = v
  /\ UNCHANGED <<messages, isLoading, reqs, last, prevented, now>>

\* a submit event on the form: handleSendMessage up to its first await
HandleSendMessage ==
  /\ prevented < MaxEvents
  /\ prevented' = prevented + 1
  /\ IF Ignored(inputValue)
     THEN UNCHANGED <<messages, inputValue, isLoading, reqs, last, now>>
     ELSE LET messageText == Join(Trim(inputValue)) IN
          /\ isLoading' = TRUE
          /\ messages' = messages \o <<NewMessage(messageText, now), TypingMessage(now)>>
          /\ inputValue' = <<>>
          /\ reqs' = Suspend(prevented', Request(messageText))
          /\ UNCHANGED <<last, now>>

\* fetch rejects: the transport failed
FetchRejects(n) ==
  /\ reqs[n].pc = "fetch"
  /\ Catch(n, reqs[n])
  /\ UNCHANGED <<inputValue, prevented, now>>

\* fetch resolves with a response of the given status
FetchResolves(n, status) ==
  /\ reqs[n].pc = "fetch"
  /\ LET req == [reqs[n] EXCEPT !.status = status] IN
     IF ResponseOk(status)
     THEN \* await response.json(): the body starts to be read
          /\ reqs' = Suspend(n, [req EXCEPT !.pc = "json"])
          /\ UNCHANGED <<messages, isLoading, last>>
     ELSE HttpError(n, req)
  /\ UNCHANGED <<inputValue, prevented, now>>

\* response.json() settles, the body being the given one
JsonSettles(n, body) ==
  /\ reqs[n].pc = "json"
  /\ LET json == ResponseJson(reqs[n].bodyUsed, body)
         req == [reqs[n] EXCEPT !.bodyUsed = TRUE, !.body = <<body>>]
     IN  IF json.settled = "fulfilled" /\ ~GetThrows(json.value)
         THEN Reply(n, req, ExtractMessage(json.value))
         ELSE \* catch (jsonError): await response.text()
              /\ reqs' = Suspend(n, [req EXCEPT !.pc = "text",
                                       !.pending = <<ResponseText(req.bodyUsed, body)>>])
              /\ UNCHANGED <<messages, isLoading, last>>
  /\ UNCHANGED <<inputValue, prevented, now>>

\* response.text() settles
TextSettles(n) ==
  /\ reqs[n].pc = "text"
  /\ IF reqs[n].pending[1].settled = "fulfilled"
     THEN Reply(n, reqs[n], reqs[n].pending[1].value)
     ELSE Catch(n, reqs[n])
  /\ UNCHANGED <<inputValue, prevented, now>>

Next ==
  \/ Tick
  \/ \E v \in Inputs : OnChange(v)
  \/ HandleSendMessage
  \/ \E n \in DOMAIN reqs : FetchRejects(n)
  \/ \E n \in DOMAIN reqs, status \in Statuses : FetchResolves(n, status)
  \/ \E n \in DOMAIN reqs, body \in Bodies : JsonSettles(n, body)
  \/ \E n \in DOMAIN reqs : TextSettles(n)

Spec == Init /\ [][Next]_vars

(***************************************************************************)
(* What a user can do through the rendered controls: the input is          *)
(* disabled while isLoading, the button while isLoading or while the       *)
(* trimmed input is empty, and a form whose button is disabled is not      *)
(* submitted by the Enter key either.                                      *)
(***************************************************************************)
InputDisabled == isLoading
ButtonDisabled == isLoading \/ Ignored(inputValue)

UserTypes(v) == ~InputDisabled /\ OnChange(v)
UserSubmits == ~ButtonDisabled /\ HandleSendMessage

NextUI ==
  \/ Tick
  \/ \E v \in Inputs : UserTypes(v)
  \/ UserSubmits
  \/ \E n \in DOMAIN reqs : FetchRejects(n)
  \/ \E n \in DOMAIN reqs, status \in Statuses : FetchResolves(n, status)
  \/ \E n \in DOMAIN reqs, body \in Bodies : JsonSettles(n, body)
  \/ \E n \in DOMAIN reqs : TextSettles(n)

SpecUI == Init /\ [][NextUI]_vars

(***************************************************************************)
(* Every request settles: fetch, response.json() and response.text() each  *)
(* resolve or reject in the end, and the continuation of the invocation    *)
(* that awaits them is then run by the event loop.                         *)
(***************************************************************************)
Settles ==
  \E n \in DOMAIN reqs :
    \/ FetchRejects(n)
    \/ \E status \in Statuses : FetchResolves(n, status)
    \/ \E body \in Bodies : JsonSettles(n, body)
    \/ TextSettles(n)

SpecFair == Spec /\ WF_vars(Settles)

(***************************************************************************)
(* Properties.                                                             *)
(***************************************************************************)
Indices(ms) == 1..Len(ms)
NumTyping(ms) == Cardinality({k \in Indices(ms) : ms[k].id = "typing"})
NumCustomers(ms) == Cardinality({k \in Indices(ms) : ms[k].type = "customer"})
NumReplies(ms) ==
  Cardinality({k \in Indices(ms) : ms[k].type = "creator" /\ ms[k].id # "typing"})
\* the transcript with the placeholder left out
Real(ms) == SelectSeq(ms, LAMBDA m : m.id # "typing")
\* the failure notifications among the toasts of an invocation
Failures(ts) == SelectSeq(ts, LAMBDA x : x.variant = "destructive")
\* white space only, or nothing at all
Blank(value) == \A k \in 1..Len(value) : value[k] = " "

\* this step is a submit event
Submits == prevented' # prevented
\* in this step an invocation of handleSendMessage returns (it is then last')
Returns == last'.event # last.event
\* the invocation got a response, and its status is 2xx / is not 2xx
GotOk(r) == r.status \in 200..299
GotError(r) == r.status # 0 /\ r.status \notin 200..299
\* the invocation got no response: fetch threw
GotNothing(r) == r.event # 0 /\ r.status = 0
\* the body the invocation read is (is not) JSON
ReadJson(r) == r.body # <<>> /\ r.body[1].parsed # <<>>
ReadText(r) == r.body # <<>> /\ r.body[1].parsed = <<>>

\* C1: a submission of a non-blank input appends the user's message with the
\* trimmed text, and when its request settles with a 2xx status, whatever the
\* body, the invocation has appended exactly one reply and no placeholder is
\* left.
C1_SuccessAddsOneReply ==
  [][/\ (Submits /\ ~Blank(inputValue)) =>
          /\ NumCustomers(messages') = NumCustomers(messages) + 1
          /\ \E k \in Indices(messages') :
                /\ k > Len(messages)
                /\ messages'[k].type = "customer"
                /\ messages'[k].text = Str(Join(Trim(inputValue)))
     /\ (Returns /\ GotOk(last')) =>
          /\ NumTyping(messages') = 0
          /\ NumCustomers(messages') = NumCustomers(messages)
          /\ NumReplies(messages') = NumReplies(messages) + 1
          /\ Len(last'.replies) = 1]_vars

\* C2: a submit event while a submission is in flight changes neither the
\* transcript nor the set of requests, whatever the input field holds.
C2_SubmitInFlightIsNoOp ==
  [][(Submits /\ isLoading /\ DOMAIN reqs # {}) =>
        /\ Len(messages') = Len(messages)
        /\ DOMAIN reqs' = DOMAIN reqs]_vars

\* C3: an invocation whose 2xx response had a body that is no JSON has appended
\* a reply whose text is the raw body, and has shown no error.
C3_PlainTextBodyIsTheReply ==
  (GotOk(last) /\ ReadText(last)) =>
     /\ last.replies = <<Str(last.body[1].raw)>>
     /\ Failures(last.toasts) = <<>>

\* C4: when an invocation returns after a non-2xx status, the transcript has
\* no placeholder, no new reply, the same real messages as before (the user's
\* message among them), and the invocation has notified one failure.
C4_HttpErrorRemovesPlaceholder ==
  [][(Returns /\ GotError(last')) =>
        /\ NumTyping(messages') = 0
        /\ NumReplies(messages') = NumReplies(messages)
        /\ Real(messages') = Real(messages)
        /\ \E k \in Indices(messages') :
              messages'[k].type = "customer" /\ messages'[k].text = Str(last'.text)
        /\ last'.replies = <<>>
        /\ Len(Failures(last'.toasts)) = 1
        /\ Len(last'.toasts) = 1]_vars

C4_Witness == GotError(last) /\ last.status = 500 /\ NumTyping(messages) = 0

\* C5: a thrown fetch and a non-2xx response lead, from the same state, to the
\* same transcript, in-flight flag and number of failure notifications: the
\* transcript without the placeholder, no reply, one notification, isLoading
\* false.
C5_ThrowIsHttpError ==
  [][(Returns /\ (GotNothing(last') \/ GotError(last'))) =>
        /\ messages' = Real(messages)
        /\ isLoading' = FALSE
        /\ last'.replies = <<>>
        /\ Len(Failures(last'.toasts)) = 1]_vars

C5_Witness == GotNothing(last) /\ ~isLoading /\ NumTyping(messages) = 0

\* C6: a submit event while the input is empty or white space changes nothing:
\* no message, no request, no notification, isLoading and the input as they
\* were.
C6_BlankSubmitChangesNothing ==
  [][(Submits /\ Blank(inputValue)) =>
        UNCHANGED <<messages, reqs, isLoading, last, inputValue>>]_vars

C6_Witness ==
  /\ prevented > 0
  /\ inputValue = <<" ", " ">>
  /\ messages = <<InitialMessage>>
  /\ DOMAIN reqs = {}
  /\ last.event = 0
  /\ ~isLoading

\* C7: no two entries of the transcript have the same id.
C7_IdsAreUnique ==
  \A j, k \in Indices(messages) : j # k => messages[j].id # messages[k].id

\* C8: the transcript holds at most one entry with id 'typing'.
C8_AtMostOnePlaceholder == NumTyping(messages) <= 1

\* the first truthy one of the members 'response', 'message' and 'text' of a
\* parsed object, else its serialization
FirstTruthy(data) ==
  LET keys == <<"response", "message", "text">>
      truthy == {k \in 1..3 : Truthy(Get(data, keys[k]))}
  IN  IF truthy # {}
      THEN Get(data, keys[CHOOSE k \in truthy : \A j \in truthy : k <= j])
      ELSE Str(JSONStringify(data))

\* C9: the reply to a 2xx response whose body parses as a JSON object has as
\* text the first truthy one of 'response', 'message', 'text', else the
\* serialization of the object; the reply to a body that parses as a
\* non-empty string is that string.
C9_ReplyIsFirstTruthyMember ==
  (GotOk(last) /\ ReadJson(last)) =>
     LET data == last.body[1].parsed[1] IN
       /\ data.t = "object" => last.replies = <<FirstTruthy(data)>>
       /\ (data.t = "string" /\ data.s # "") => last.replies = <<data>>

C9_Witness ==
  /\ GotOk(last)
  /\ last.body = <<JsonBody(Obj(<<<<"message", Str("Hello")>>>>))>>
  /\ last.replies = <<Str("Hello")>>
  /\ messages[Len(messages)].text = Str("Hello")

\* C10: no reply in the transcript has the empty string as text, and an
\* invocation whose extracted text is empty has replied with the fixed
\* fallback string.
C10_NoEmptyReply ==
  /\ \A k \in Indices(messages) : messages[k].type = "creator" => messages[k].text # Str("")
  /\ \A r \in Indices(last.replies) : last.replies[r] # Str("")
  /\ (GotOk(last) /\ ReadJson(last) /\ last.body[1].parsed[1] = Str("")) =>
        last.replies = <<Str("No response received")>>

C10_Witness ==
  /\ last.body = <<JsonBody(Str(""))>>
  /\ last.replies = <<Str("No response received")>>
  /\ messages[Len(messages)].text = Str("No response received")

\* C11: an accepted submission sets isLoading with its request issued; every
\* return of an invocation, after a reply, a non-2xx status or an exception
\* (one raised while the body is read included), clears it; and when every
\* request settles, a loading controller always becomes idle again, with no
\* request left.
C11_LoadingIsSetAndCleared ==
  /\ [][(Submits /\ ~Blank(inputValue)) =>
          /\ isLoading'
          /\ \E n \in DOMAIN reqs' \ DOMAIN reqs : reqs'[n].pc = "fetch"]_vars
  /\ [][Returns => ~isLoading']_vars
  /\ isLoading ~> ~isLoading
  /\ (DOMAIN reqs # {}) ~> (DOMAIN reqs = {} /\ ~isLoading)

\* an invocation has returned through an exception raised while the body of a
\* 2xx response was read, and the controller is idle
C11_Witness ==
  /\ GotOk(last)
  /\ last.outcome = "exception"
  /\ ~isLoading
  /\ DOMAIN reqs = {}

\* a is an initial part of b
IsPrefix(a, b) == Len(a) <= Len(b) /\ SubSeq(b, 1, Len(a)) = a

\* C12: in every step the transcript without the placeholder only grows at its
\* end: no real message is removed, moved or changed; only placeholders go.
C12_RealMessagesOnlyGrow ==
  [][/\ IsPrefix(Real(messages), Real(messages'))
     /\ Len(messages') < Len(messages) => NumTyping(messages') < NumTyping(messages)]_vars

\* a placeholder has been removed and the messages before it are still there
C12_Witness ==
  /\ last.event > 0
  /\ NumTyping(messages) = 0
  /\ Len(messages) >= 3
  /\ messages[1] = InitialMessage
  /\ messages[2].type = "customer"

\* this step is a submit event that gets past the empty-input guard
Accepted == Submits /\ ~Blank(inputValue)

\* C13: an accepted submission issues one request, at its fetch, carrying the
\* trimmed input, with the user's message and the placeholder appended; no
\* other step issues a request or takes one back to its fetch (no retry).
C13_OneRequestPerSubmission ==
  [][/\ Accepted =>
          \E n \in DOMAIN reqs' \ DOMAIN reqs :
             /\ DOMAIN reqs' = DOMAIN reqs \cup {n}
             /\ \A m \in DOMAIN reqs : reqs'[m] = reqs[m]
             /\ reqs'[n].pc = "fetch"
             /\ reqs'[n].payload = "{\"message\":\"" \o Join(Trim(inputValue)) \o "\"}"
             /\ Len(messages') = Len(messages) + 2
             /\ messages'[Len(messages') - 1].type = "customer"
             /\ messages'[Len(messages') - 1].text = Str(Join(Trim(inputValue)))
             /\ messages'[Len(messages')].id = "typing"
     /\ ~Accepted =>
          /\ DOMAIN reqs' \subseteq DOMAIN reqs
          /\ \A n \in DOMAIN reqs' : reqs'[n].pc = "fetch" => reqs[n].pc = "fetch"]_vars

\* a first submission has failed, no request was issued for it again, and the
\* request of a second submission is at its fetch
C13_Witness ==
  /\ last.event = 1
  /\ (GotError(last) \/ GotNothing(last))
  /\ DOMAIN reqs = {2}
  /\ reqs[2].pc = "fetch"
  /\ reqs[2].payload = "{\"message\":\"a b\"}"

\* C14: across every step in which a request stays unsettled, at its fetch,
\* the controller stays loading with the placeholder in the transcript, and
\* the transcript does not change.
C14_HungRequestFreezesController ==
  [][\A n \in DOMAIN reqs :
        (reqs[n].pc = "fetch" /\ n \in DOMAIN reqs' /\ reqs'[n].pc = "fetch") =>
           /\ isLoading /\ isLoading'
           /\ NumTyping(messages') >= 1
           /\ messages' = messages]_vars

\* C15: when isLoading is false the transcript holds no placeholder; a
\* placeholder is there only while isLoading is true and a request is in flight.
C15_IdleHasNoPlaceholder ==
  /\ ~isLoading => NumTyping(messages) = 0
  /\ NumTyping(messages) > 0 => (isLoading /\ DOMAIN reqs # {})

\* idle again after a submission whose placeholder was removed
C15_Witness ==
  /\ ~isLoading
  /\ last.event > 0
  /\ NumCustomers(messages) > 0
  /\ NumTyping(messages) = 0

\* the real messages after the greeting alternate: customer, reply, customer, ...
Alternates(ms) ==
  \A k \in 2..Len(ms) : ms[k].type = (IF k % 2 = 0 THEN "customer" ELSE "creator")

====
